---- MODULE Spec2Model ----
(***************************************************************************)
(* P_affinities (unsupervised_learning/0x00-dimensionality_reduction/      *)
(* 4-P_affinities.py): per-row bisection on the Gaussian precision         *)
(* betas[i] until the Shannon entropy of the row's conditional             *)
(* distribution is within tol of H, followed by the symmetrization         *)
(* (P.T + P) / (2n).                                                       *)
(*                                                                         *)
(* Numbers.  Reals are fixed-point integers:                               *)
(*   precisions     in units of 1/BS   (betas[i] = BS is 1.0)              *)
(*   exp arguments  in units of 1/BS   (x = D[i][j] * betas[i])            *)
(*   weights        in units of 1/WS                                       *)
(*   entropies, tol in milli-nats       (LnTab holds 1000 * ln)             *)
(*   probabilities  as numerators over the denominator Pden                *)
(*   perplexity     in units of 1/PU                                       *)
(* A division rounds down, as a float division rounds to a representable   *)
(* value; halving a precision of one unit gives 0, as repeated halving of  *)
(* a float underflows to 0.  The model covers the runs whose precisions    *)
(* stay <= MaxBeta and whose exp arguments stay <= MaxX (the range in      *)
(* which every weight is >= 1 unit): a step that would leave that range    *)
(* is not taken, and RangeExceeded names the states where that happens.    *)
(*                                                                         *)
(* P_init (2-P_init.py) and HP (3-entropy.py) are imported by the source   *)
(* and are modelled from the specification's sections 3 and 4.1.           *)
(*                                                                         *)
(* Three further routines of the repository are modelled, each with its    *)
(* own variables and its own specification; a specification leaves the     *)
(* variables of the other routines at their idle values:                   *)
(*   NST.generate_image       (0x0C-neural_style_transfer/10-neural_style) *)
(*   NeuralNetwork.train      (0x01-classification/15-neural_network)      *)
(*   summation_i_squared      (0x02-calculus/9-sum_total)                  *)
(*   l2_reg_gradient_descent  (0x05-regularization/1-l2_reg_gradient_...)  *)
(*   poly_integral, poly_derivative (0x02-calculus/17-integrate, 10-matisse)*)
(***************************************************************************)
EXTENDS Integers, Sequences, FiniteSets, TLC

VARIABLES n, D, tol, perplexity,      \* the inputs of the call
          P, Pden, betas, H,          \* what P_init returns; P is rebound at line 52
          i, row, Hi, Pi, Hdiff, b_min, b_max,   \* the locals of the row loop
          pc,                         \* position in P_affinities
          Pcond                       \* history: the conditional matrix line 52 read

\* NST.generate_image.  The names generated_image and best_img are bound to
\* tf objects: variable is the value held by the tf Variable that
\* generated_image names, best_img says which object that name is bound to.
VARIABLES g_iterations, g_step, content_image,   \* the inputs, self.content_image
          variable, best_loss, best_img, g_i,    \* the locals
          g_printed,                  \* the iterations whose cost was printed
          g_ret_img, g_ret_cost,      \* the returned pair
          g_pc, g_err,                \* position, and the exception raised
          best_at                     \* history: the image best_loss was measured at

\* NeuralNetwork.train.  updates counts the calls of gradient_descent, that
\* is the version of the weights W1, b1, W2, b2.
VARIABLES t_iterations, t_alpha, verbose, graph, t_step,   \* the inputs
          t_i, updates, steps_bound, steps_list, steps_cost,
          t_printed, plotted, t_ret, t_pc, t_err

\* summation_i_squared.
VARIABLES s_n, s_ret, s_pc

\* l2_reg_gradient_descent.  Every layer has one unit, so that W_i and b_i are
\* numbers; an activation or a dZ is a row of m numbers, one per example.
VARIABLES Y, weights, cache, alpha, lambtha, L, l_m, \* the arguments; l_m is m = Y.shape[1]
          weights_copy, l_i, dZi, l_pc,              \* the locals
          weights0, l_order           \* history: the weights before the call,
                                      \* the layers in the order they were updated

\* poly_integral followed by poly_derivative.
VARIABLES c_poly, c_C,                \* the arguments of poly_integral
          integration, derivative,    \* what the two functions returned
          c_pc

affVars == <<n, D, tol, perplexity, P, Pden, betas, H,
             i, row, Hi, Pi, Hdiff, b_min, b_max, pc, Pcond>>

nstVars == <<g_iterations, g_step, content_image, variable, best_loss,
             best_img, g_i, g_printed, g_ret_img, g_ret_cost, g_pc, g_err,
             best_at>>

nnVars == <<t_iterations, t_alpha, verbose, graph, t_step, t_i, updates,
            steps_bound, steps_list, steps_cost, t_printed, plotted, t_ret,
            t_pc, t_err>>

sumVars == <<s_n, s_ret, s_pc>>

l2Vars == <<Y, weights, cache, alpha, lambtha, L, l_m, weights_copy, l_i, dZi,
            l_pc, weights0, l_order>>

polyVars == <<c_poly, c_C, integration, derivative, c_pc>>

vars == <<affVars, nstVars, nnVars, sumVars, l2Vars, polyVars>>

----------------------------------------------------------------------------
\* Bounds of the model.
MaxN == 3
MaxD == 3
MaxBeta == 16
MaxNAny == 2

\* Fixed-point units.
BS == 8
WS == 10000
PS == 1000
PU == 2

\* Python's None for b_min / b_max (precisions are never negative); also for
\* step, and for a value not yet returned (costs and sums are never negative).
None == -1

\* The routines that a specification does not run.
IdleAff ==
    /\ n = 0 /\ D = << >> /\ tol = 0 /\ perplexity = 0
    /\ P = << >> /\ Pden = 0 /\ betas = << >> /\ H = 0
    /\ i = 0 /\ row = << >> /\ Hi = 0 /\ Pi = << >> /\ Hdiff = 0
    /\ b_min = None /\ b_max = None
    /\ pc = "idle"
    /\ Pcond = << >>

IdleNST ==
    /\ g_iterations = 0 /\ g_step = None /\ content_image = 0
    /\ variable = None /\ best_loss = 0 /\ best_img = "unbound" /\ g_i = 0
    /\ g_printed = << >>
    /\ g_ret_img = None /\ g_ret_cost = None
    /\ g_pc = "idle" /\ g_err = ""
    /\ best_at = None

IdleNN ==
    /\ t_iterations = 0 /\ t_alpha = 0 /\ verbose = FALSE /\ graph = FALSE
    /\ t_step = 0
    /\ t_i = 0 /\ updates = 0
    /\ steps_bound = FALSE /\ steps_list = << >> /\ steps_cost = << >>
    /\ t_printed = << >> /\ plotted = << >> /\ t_ret = None
    /\ t_pc = "idle" /\ t_err = ""

IdleSum == s_n = [type |-> "int", val |-> 0] /\ s_ret = None /\ s_pc = "idle"

IdleL2 ==
    /\ Y = << >> /\ weights = [W |-> << >>, b |-> << >>] /\ cache = << >>
    /\ alpha = 0 /\ lambtha = 0 /\ L = 0 /\ l_m = 0
    /\ weights_copy = [W |-> << >>, b |-> << >>] /\ l_i = 0 /\ dZi = << >>
    /\ l_pc = "idle"
    /\ weights0 = [W |-> << >>, b |-> << >>] /\ l_order = << >>

IdlePoly ==
    /\ c_poly = << >> /\ c_C = [type |-> "int", num |-> 0, sh |-> 0]
    /\ integration = [isNone |-> TRUE, list |-> << >>]
    /\ derivative = [isNone |-> TRUE, list |-> << >>]
    /\ c_pc = "idle"

DVals == 1..MaxD
PerpVals == {2, 3, 4, 6}            \* perplexity 1, 1.5, 2, 3
TolVals == {0, 20, 100}             \* tol 0, 0.02, 0.1
MaxTol == CHOOSE t \in TolVals : \A u \in TolVals : u <= t

----------------------------------------------------------------------------
\* Arithmetic helpers.
Abs(x) == IF x < 0 THEN -x ELSE x

Len0(f) == Cardinality(DOMAIN f)

RECURSIVE SumTo(_, _)
\* f[0] + ... + f[k-1]; 0 for k = 0 (numpy's sum of an empty array).
SumTo(f, k) == IF k = 0 THEN 0 ELSE f[k - 1] + SumTo(f, k - 1)

RECURSIVE Log2Floor(_)
Log2Floor(k) == IF k < 2 THEN 0 ELSE 1 + Log2Floor(k \div 2)

RECURSIVE Pow2(_)
Pow2(e) == IF e = 0 THEN 1 ELSE 2 * Pow2(e - 1)

\* 1000 * ln(1 + k/8), k = 0..8.
LnTab == <<0, 118, 223, 318, 405, 486, 560, 629, 693>>

\* 1000 * ln(k) for an integer k >= 1: k = 2^e * (1 + f), ln k = e ln 2 + ln(1 + f),
\* ln(1 + f) interpolated linearly in LnTab.
Ln(k) ==
    LET e == Log2Floor(k)
        p == Pow2(e)
        r == (k - p) * 8
        idx == r \div p
        fr == r % p
    IN  e * LnTab[9] + LnTab[idx + 1]
          + ((LnTab[idx + 2] - LnTab[idx + 1]) * fr) \div p

\* WS * exp(-m), m = 0..8, and WS * exp(-f/BS), f = 0..BS-1.
ExpInt == <<10000, 3679, 1353, 498, 183, 67, 25, 9, 3>>
ExpFrac == <<10000, 8825, 7788, 6873, 6065, 5353, 4724, 4169>>

\* The largest exp argument (in 1/BS) whose weight the tables give, all >= 1.
MaxX == (Len(ExpInt) - 1) * BS + (BS - 1)

\* WS * exp(-x/BS) for 0 <= x <= MaxX; 0 beyond (underflow).
ExpNeg(x) ==
    IF x > MaxX THEN 0
    ELSE (ExpInt[(x \div BS) + 1] * ExpFrac[(x % BS) + 1]) \div WS

----------------------------------------------------------------------------
\* HP(Di, beta): weights exp(-Di * beta), normalised to the distribution Pi,
\* and its Shannon entropy Hi = -sum(Pi * ln Pi), with Pi = w / s.
HP(Di, beta) ==
    LET m == Len0(Di)
        w == [j \in 0..(m - 1) |-> ExpNeg(Di[j] * beta)]
        s == SumTo(w, m)
        t == [j \in 0..(m - 1) |-> w[j] * (Ln(s) - Ln(w[j]))]
    IN  [Hi |-> IF s = 0 THEN 0 ELSE SumTo(t, m) \div s,
         Pi |-> [j \in 0..(m - 1) |-> (w[j] * PS) \div s]]

\* P_init(X, perplexity): D is taken as given; P is n x n zeros, betas all 1.0,
\* H = ln(perplexity).
P_init(nn, perp) ==
    [P |-> [a \in 0..(nn - 1) |-> [b \in 0..(nn - 1) |-> 0]],
     betas |-> [a \in 0..(nn - 1) |-> BS],
     H |-> Ln(perp) - Ln(PU)]

----------------------------------------------------------------------------
\* The pieces of P_affinities.

\* np.delete(row, -1, axis=0): the last entry removed instead of entry i.
DeleteLast(r, k) ==
    [j \in 0..(Len0(r) - 2) |-> r[j]]

\* np.delete(row, i, axis=0)
Delete(r, k) ==
    [j \in 0..(Len0(r) - 2) |-> IF j < k THEN r[j] ELSE r[j + 1]]

\* np.insert(Pi, 0, 0): the self-entry put in front instead of at index i.
InsertAtZero(p, k, v) ==
    [j \in 0..Len0(p) |-> IF j = 0 THEN v ELSE p[j - 1]]

\* np.insert(Pi, i, 1): a self-entry of probability 1.
InsertOne(p, k, v) ==
    [j \in 0..Len0(p) |-> IF j < k THEN p[j] ELSE IF j = k THEN PS ELSE p[j - 1]]

\* np.insert(Pi, i, 0)
Insert(p, k, v) ==
    [j \in 0..Len0(p) |-> IF j < k THEN p[j] ELSE IF j = k THEN v ELSE p[j - 1]]

\* Line 33 without the absolute value.
LoopCondNoAbs(hd, t) == hd > t

\* while np.abs(Hdiff) > tol
LoopCond(hd, t) == Abs(hd) > t

\* Lines 39 and 45 without the division by 2.
MidpointNoHalf(a, b) == a + b

\* (a + b) / 2.
Midpoint(a, b) == (a + b) \div 2

\* Lines 31-32 left out: the bounds of the previous row are kept.
KeptBounds(bmin, bmax) == [b_min |-> bmin, b_max |-> bmax]

\* Lines 31-32: b_max = None; b_min = None.
FreshBounds(bmin, bmax) == [b_min |-> None, b_max |-> None]

\* Lines 34-45 with the other bound reset to None at every update.
BisectUpdateForgets(hd, b, bmin, bmax) ==
    IF hd > 0
    THEN [b_min |-> b, b_max |-> None,
          beta |-> IF bmax = None THEN b * 2 ELSE Midpoint(b, bmax)]
    ELSE [b_min |-> None, b_max |-> b,
          beta |-> IF bmin = None THEN b \div 2 ELSE Midpoint(b, bmin)]

\* Lines 34-45 with line 45 a copy of line 39 (b_max where b_min is meant).
BisectUpdateCopied(hd, b, bmin, bmax) ==
    IF hd > 0
    THEN [b_min |-> b, b_max |-> bmax,
          beta |-> IF bmax = None THEN b * 2 ELSE Midpoint(b, bmax)]
    ELSE [b_min |-> bmin, b_max |-> b,
          beta |-> IF bmin = None THEN b \div 2 ELSE Midpoint(b, b)]

\* Lines 34-45: the new (b_min, b_max, betas[i]) from the sign of Hdiff.
BisectUpdate(hd, b, bmin, bmax) ==
    IF hd > 0
    THEN [b_min |-> b, b_max |-> bmax,
          beta |-> IF bmax = None THEN b * 2 ELSE Midpoint(b, bmax)]
    ELSE [b_min |-> bmin, b_max |-> b,
          beta |-> IF bmin = None THEN b \div 2 ELSE Midpoint(b, bmin)]

\* Line 52 dividing by n.
SymDenN(nn, den) == nn * den

\* The denominator of (P.T + P) / (2 * n), entries being numerators over den.
SymDen(nn, den) == 2 * nn * den

\* Line 52 subtracting P from its transpose.
SymNumMinus(M, nn) ==
    [a \in 0..(nn - 1) |-> [b \in 0..(nn - 1) |-> M[b][a] - M[a][b]]]

\* Line 52 adding P to itself instead of to its transpose.
SymNumNoTranspose(M, nn) ==
    [a \in 0..(nn - 1) |-> [b \in 0..(nn - 1) |-> M[a][b] + M[a][b]]]

\* The numerators of P.T + P.
SymNum(M, nn) ==
    [a \in 0..(nn - 1) |-> [b \in 0..(nn - 1) |-> M[b][a] + M[a][b]]]

\* P[:] = Pi: every row overwritten.
WriteAllRows(M, k, r) == [a \in DOMAIN M |-> r]

\* Line 50: P[i] = Pi.
WriteRow(M, k, r) == [M EXCEPT ![k] = r]

\* for i in range(n - 1): the last row is skipped.
AfterRowShort(k, nn) == IF k + 1 >= nn - 1 THEN "sym" ELSE "row"

\* Line 26 after row k: the next row, or line 52 once range(n) is exhausted.
AfterRow(k, nn) == IF k + 1 = nn THEN "sym" ELSE "row"

\* Lines 23-26 without the early return: range(0) is empty, line 52 runs.
AfterInitNoReturn(nn) == IF nn = 0 THEN "sym" ELSE "row"

\* Lines 23-26: return P when n == 0, else enter the row loop.
AfterInit(nn) == IF nn = 0 THEN "done" ELSE "row"

\* The modelled numeric range.
InRange(r, b) ==
    /\ b <= MaxBeta
    /\ \A j \in DOMAIN r : r[j] * b <= MaxX

RangeExceeded ==
    /\ pc = "loop"
    /\ LoopCond(Hdiff, tol)
    /\ ~InRange(row, BisectUpdate(Hdiff, betas[i], b_min, b_max).beta)

----------------------------------------------------------------------------
Pairs(nn) == {q \in (0..(nn - 1)) \X (0..(nn - 1)) : q[1] < q[2]}

\* Squared pairwise distances of nn distinct points: symmetric, zero diagonal.
DistMatrices(nn) ==
    {[a \in 0..(nn - 1) |-> [b \in 0..(nn - 1) |->
        IF a = b THEN 0 ELSE IF a < b THEN f[<<a, b>>] ELSE f[<<b, a>>]]]
     : f \in [Pairs(nn) -> DVals]}

Init ==
    /\ n \in 0..MaxN
    /\ D \in DistMatrices(n)
    /\ tol \in TolVals
    /\ perplexity \in PerpVals
    /\ P = << >> /\ Pden = PS /\ betas = << >> /\ H = 0
    /\ i = 0 /\ row = << >> /\ Hi = 0 /\ Pi = << >> /\ Hdiff = 0
    /\ b_min = None /\ b_max = None
    /\ pc = "start"
    /\ Pcond = << >>
    /\ IdleNST /\ IdleNN /\ IdleSum /\ IdleL2 /\ IdlePoly

\* Lines 20-24: P_init, and the early return for n == 0.
Start ==
    /\ pc = "start"
    /\ LET r == P_init(n, perplexity)
       IN  /\ P' = r.P
           /\ betas' = r.betas
           /\ H' = r.H
    /\ pc' = AfterInit(n)
    /\ UNCHANGED <<n, D, tol, perplexity, Pden, i, row, Hi, Pi, Hdiff,
                   b_min, b_max, Pcond>>
    /\ UNCHANGED <<nstVars, nnVars, sumVars, l2Vars, polyVars>>

\* Lines 27-32: the head of the row loop.
BeginRow ==
    /\ pc = "row"
    /\ LET r == Delete(D[i], i)
           hp == HP(r, betas[i])
       IN  /\ row' = r
           /\ Hi' = hp.Hi
           /\ Pi' = hp.Pi
           /\ Hdiff' = hp.Hi - H
    /\ b_max' = FreshBounds(b_min, b_max).b_max
    /\ b_min' = FreshBounds(b_min, b_max).b_min
    /\ pc' = "loop"
    /\ UNCHANGED <<n, D, tol, perplexity, P, Pden, betas, H, i, Pcond>>
    /\ UNCHANGED <<nstVars, nnVars, sumVars, l2Vars, polyVars>>

\* Lines 33-48: one iteration of the while loop.
BisectStep ==
    /\ pc = "loop"
    /\ LoopCond(Hdiff, tol)
    /\ LET u == BisectUpdate(Hdiff, betas[i], b_min, b_max)
           hp == HP(row, u.beta)
       IN  /\ InRange(row, u.beta)
           /\ b_min' = u.b_min
           /\ b_max' = u.b_max
           /\ betas' = [betas EXCEPT ![i] = u.beta]
           /\ Hi' = hp.Hi
           /\ Pi' = hp.Pi
           /\ Hdiff' = hp.Hi - H
    /\ UNCHANGED <<n, D, tol, perplexity, P, Pden, H, i, row, pc, Pcond>>
    /\ UNCHANGED <<nstVars, nnVars, sumVars, l2Vars, polyVars>>

\* Lines 49-50, and the for loop's advance.
EndRow ==
    /\ pc = "loop"
    /\ ~LoopCond(Hdiff, tol)
    /\ Pi' = Insert(Pi, i, 0)
    /\ P' = WriteRow(P, i, Pi')
    /\ i' = i + 1
    /\ pc' = AfterRow(i, n)
    /\ UNCHANGED <<n, D, tol, perplexity, Pden, betas, H, row, Hi, Hdiff,
                   b_min, b_max, Pcond>>
    /\ UNCHANGED <<nstVars, nnVars, sumVars, l2Vars, polyVars>>

\* Lines 52-53.
Symmetrize ==
    /\ pc = "sym"
    /\ Pcond' = P
    /\ P' = SymNum(P, n)
    /\ Pden' = SymDen(n, Pden)
    /\ pc' = "done"
    /\ UNCHANGED <<n, D, tol, perplexity, betas, H, i, row, Hi, Pi, Hdiff,
                   b_min, b_max>>
    /\ UNCHANGED <<nstVars, nnVars, sumVars, l2Vars, polyVars>>

Next == Start \/ BeginRow \/ BisectStep \/ EndRow \/ Symmetrize

Spec == Init /\ [][Next]_vars

----------------------------------------------------------------------------
\* The same call with HP's entropy left open: every evaluation of HP may
\* return any of the entropies H + h, h in AnyHdiff, so that the while loop
\* sees every sequence of Hdiff signs.  HP's distribution Pi is kept.
AnyHdiff == {-(MaxTol + 1), 0, MaxTol + 1}

\* Lines 27-32 with the entropy left open.
BeginRowAny ==
    /\ pc = "row"
    /\ LET r == Delete(D[i], i)
       IN  /\ row' = r
           /\ Pi' = HP(r, betas[i]).Pi
    /\ \E h \in AnyHdiff : Hi' = H + h /\ Hdiff' = Hi' - H
    /\ b_max' = FreshBounds(b_min, b_max).b_max
    /\ b_min' = FreshBounds(b_min, b_max).b_min
    /\ pc' = "loop"
    /\ UNCHANGED <<n, D, tol, perplexity, P, Pden, betas, H, i, Pcond>>
    /\ UNCHANGED <<nstVars, nnVars, sumVars, l2Vars, polyVars>>

\* Lines 33-48 with the entropy left open.
BisectStepAny ==
    /\ pc = "loop"
    /\ LoopCond(Hdiff, tol)
    /\ LET u == BisectUpdate(Hdiff, betas[i], b_min, b_max)
       IN  /\ InRange(row, u.beta)
           /\ b_min' = u.b_min
           /\ b_max' = u.b_max
           /\ betas' = [betas EXCEPT ![i] = u.beta]
           /\ Pi' = HP(row, u.beta).Pi
    /\ \E h \in AnyHdiff : Hi' = H + h /\ Hdiff' = Hi' - H
    /\ UNCHANGED <<n, D, tol, perplexity, P, Pden, H, i, row, pc, Pcond>>
    /\ UNCHANGED <<nstVars, nnVars, sumVars, l2Vars, polyVars>>

\* One input per n: the loop's path no longer depends on D, tol or perplexity.
InitAnyH ==
    /\ Init
    /\ n <= MaxNAny
    /\ tol = MaxTol
    /\ perplexity = PU
    /\ \A a, b \in 0..(n - 1) : D[a][b] <= 1

NextAnyH == Start \/ BeginRowAny \/ BisectStepAny \/ EndRow \/ Symmetrize

SpecAnyH == InitAnyH /\ [][NextAnyH]_vars

----------------------------------------------------------------------------
\* NST.generate_image (10-neural_style.py, lines 322-413).  An image is one
\* number in Imgs; J_total is a function of the image alone, as compute_grads
\* computes it from generated_image and the fixed style and content targets.
MaxIter == 2
MaxImg == 3

Imgs == 0..MaxImg
GIterVals == 0..MaxIter
GStepVals == {None} \cup (0..(MaxIter + 1))

\* total_cost of an image: positive, least at one image.
JTotal(x) == (MaxImg - x) * (MaxImg - x) + 1

\* opt.apply_gradients: Adam moves the variable by at most the learning rate
\* per step, in a direction that its moment estimates decide.
AdamSteps(x) == {y \in Imgs : Abs(y - x) <= 1}

\* best_img.numpy(): the value now held by the object best_img is bound to.
Numpy(ref, v) == IF ref = "generated_image" THEN v ELSE None

InitNST ==
    /\ IdleAff /\ IdleNN /\ IdleSum /\ IdleL2 /\ IdlePoly
    /\ g_iterations \in GIterVals
    /\ g_step \in GStepVals
    /\ content_image \in Imgs
    /\ variable = None /\ best_loss = 0 /\ best_img = "unbound" /\ g_i = 0
    /\ g_printed = << >>
    /\ g_ret_img = None /\ g_ret_cost = None
    /\ g_pc = "start" /\ g_err = ""
    /\ best_at = None

\* Lines 344-373: the checks of the arguments, the Variable, best_loss = 0.
GenStart ==
    /\ g_pc = "start"
    /\ IF g_iterations < 1
          \/ (g_step # None /\ (g_step < 1 \/ g_step > g_iterations))
       THEN /\ g_pc' = "raised"
            /\ g_err' = "ValueError"
            /\ UNCHANGED <<variable, best_loss, g_i>>
       ELSE /\ variable' = content_image
            /\ best_loss' = 0
            /\ g_i' = 0
            /\ g_pc' = "loop"
            /\ UNCHANGED g_err
    /\ UNCHANGED <<g_iterations, g_step, content_image, best_img, g_printed,
                   g_ret_img, g_ret_cost, best_at>>
    /\ UNCHANGED <<affVars, nnVars, sumVars, l2Vars, polyVars>>

\* Lines 375-392: one iteration of for i in range(iterations + 1).
GenIter ==
    /\ g_pc = "loop"
    /\ g_i < g_iterations + 1
    /\ LET J_total == JTotal(variable)
           better == J_total < best_loss \/ best_loss = 0
       IN  /\ best_loss' = IF better THEN J_total ELSE best_loss
           /\ best_img' = IF better THEN "generated_image" ELSE best_img
           /\ best_at' = IF better THEN variable ELSE best_at
    /\ variable' \in AdamSteps(variable)
    /\ g_printed' = IF g_step # None
                       /\ (g_i % g_step = 0 \/ g_i = g_iterations)
                    THEN Append(g_printed, g_i) ELSE g_printed
    /\ g_i' = g_i + 1
    /\ UNCHANGED <<g_iterations, g_step, content_image, g_ret_img, g_ret_cost,
                   g_pc, g_err>>
    /\ UNCHANGED <<affVars, nnVars, sumVars, l2Vars, polyVars>>

\* Lines 394-413.
GenReturn ==
    /\ g_pc = "loop"
    /\ ~(g_i < g_iterations + 1)
    /\ g_ret_img' = Numpy(best_img, variable)
    /\ g_ret_cost' = best_loss
    /\ g_pc' = "returned"
    /\ UNCHANGED <<g_iterations, g_step, content_image, variable, best_loss,
                   best_img, g_i, g_printed, g_err, best_at>>
    /\ UNCHANGED <<affVars, nnVars, sumVars, l2Vars, polyVars>>

NextNST == GenStart \/ GenIter \/ GenReturn

SpecNST == InitNST /\ [][NextNST]_vars

----------------------------------------------------------------------------
\* NeuralNetwork.train (15-neural_network.py, lines 151-200).  The data X, Y
\* and the weights' values are left out: updates is the number of times
\* gradient_descent has rewritten W1, b1, W2, b2, a cost or an evaluation is
\* named by the number of updates of the weights it was computed from.
\* alpha is in hundredths.
MaxTIter == 3

TIterVals == 0..MaxTIter
TStepVals == 0..(MaxTIter + 1)
AlphaVals == {0, 5}

InitNN ==
    /\ IdleAff /\ IdleNST /\ IdleSum /\ IdleL2 /\ IdlePoly
    /\ t_iterations \in TIterVals
    /\ t_alpha \in AlphaVals
    /\ verbose \in BOOLEAN
    /\ graph \in BOOLEAN
    /\ t_step \in TStepVals
    /\ t_i = 0 /\ updates = 0
    /\ steps_bound = FALSE /\ steps_list = << >> /\ steps_cost = << >>
    /\ t_printed = << >> /\ plotted = << >> /\ t_ret = None
    /\ t_pc = "start" /\ t_err = ""

\* Line 186: i % step == 0 or i == iterations.
AtStep(k, st, its) == (k % st = 0) \/ (k = its)

\* Lines 165-181: the checks of the arguments; steps_list and steps_cost are
\* bound only when verbose or graph is True.
TrainStart ==
    /\ t_pc = "start"
    /\ IF t_iterations < 1 \/ t_alpha <= 0
       THEN /\ t_pc' = "raised" /\ t_err' = "ValueError"
            /\ UNCHANGED steps_bound
       ELSE IF verbose \/ graph
            THEN IF t_step <= 0 \/ t_step > t_iterations
                 THEN /\ t_pc' = "raised" /\ t_err' = "ValueError"
                      /\ UNCHANGED steps_bound
                 ELSE /\ steps_bound' = TRUE
                      /\ t_pc' = "loop" /\ UNCHANGED t_err
            ELSE /\ t_pc' = "loop"
                 /\ UNCHANGED <<steps_bound, t_err>>
    /\ UNCHANGED <<t_iterations, t_alpha, verbose, graph, t_step, t_i, updates,
                   steps_list, steps_cost, t_printed, plotted, t_ret>>
    /\ UNCHANGED <<affVars, nstVars, sumVars, l2Vars, polyVars>>

\* Lines 183-191: one iteration of for i in range(iterations + 1).  The
\* weights are updated (line 185) before line 186 is evaluated.
TrainIter ==
    /\ t_pc = "loop"
    /\ t_i < t_iterations + 1
    /\ updates' = updates + 1
    /\ IF t_step = 0
       THEN /\ t_pc' = "raised" /\ t_err' = "ZeroDivisionError"
            /\ UNCHANGED <<t_i, steps_list, steps_cost, t_printed>>
       ELSE IF ~AtStep(t_i, t_step, t_iterations)
            THEN /\ t_i' = t_i + 1
                 /\ UNCHANGED <<steps_list, steps_cost, t_printed, t_pc, t_err>>
            ELSE IF ~steps_bound
                 THEN /\ t_pc' = "raised" /\ t_err' = "UnboundLocalError"
                      /\ UNCHANGED <<t_i, steps_list, steps_cost, t_printed>>
                 ELSE /\ steps_list' = Append(steps_list, t_i)
                      /\ steps_cost' = Append(steps_cost, updates)
                      /\ t_printed' = IF verbose THEN Append(t_printed, t_i)
                                      ELSE t_printed
                      /\ t_i' = t_i + 1
                      /\ UNCHANGED <<t_pc, t_err>>
    /\ UNCHANGED <<t_iterations, t_alpha, verbose, graph, t_step, steps_bound,
                   plotted, t_ret>>
    /\ UNCHANGED <<affVars, nstVars, sumVars, l2Vars, polyVars>>

\* Lines 193-200: the plot, and evaluate on the weights as they are now.
TrainReturn ==
    /\ t_pc = "loop"
    /\ ~(t_i < t_iterations + 1)
    /\ plotted' = IF graph THEN steps_list ELSE plotted
    /\ t_ret' = updates
    /\ t_pc' = "returned"
    /\ UNCHANGED <<t_iterations, t_alpha, verbose, graph, t_step, t_i, updates,
                   steps_bound, steps_list, steps_cost, t_printed, t_err>>
    /\ UNCHANGED <<affVars, nstVars, sumVars, l2Vars, polyVars>>

NextNN == TrainStart \/ TrainIter \/ TrainReturn

SpecNN == InitNN /\ [][NextNN]_vars

----------------------------------------------------------------------------
\* summation_i_squared (9-sum_total.py, lines 5-12).  Python's / on two ints
\* gives the float nearest to the exact quotient (ties to even), and int()
\* drops the fraction.  A float of the model has MantBits significant bits
\* where a double has 53: the quotient is exact below 2^MantBits and rounded
\* above it, as a double's is below and above 2^53.
MantBits == 10
MaxSumN == 40

\* q + r/u, 0 <= r < u, rounded to the nearest integer, ties to even.
RoundEven(q, r, u) ==
    IF 2 * r > u \/ (2 * r = u /\ q % 2 = 1) THEN q + 1 ELSE q

\* int(a / b) for ints a >= b > 0.
IntOfTrueDiv(a, b) ==
    LET e == Log2Floor(a \div b)
    IN  IF e + 1 >= MantBits
        THEN LET u == Pow2(e + 1 - MantBits)
             IN  RoundEven(a \div (b * u), a % (b * u), b * u) * u
        ELSE LET sh == Pow2(MantBits - e - 1)
             IN  RoundEven((a * sh) \div b, (a * sh) % b, b) \div sh

\* Lines 10-12.
summation_i_squared(x) ==
    IF x.type # "int" \/ x.val <= 0
    THEN None
    ELSE IntOfTrueDiv(x.val * (x.val + 1) * (2 * x.val + 1), 6)

\* The arguments tried: ints of either sign, floats and bools.
SumInputs ==
    [type : {"int"}, val : (-MaxSumN)..MaxSumN]
        \cup [type : {"float"}, val : (-1)..2]
        \cup [type : {"bool"}, val : 0..1]

InitSum ==
    /\ IdleAff /\ IdleNST /\ IdleNN /\ IdleL2 /\ IdlePoly
    /\ s_n \in SumInputs
    /\ s_ret = None
    /\ s_pc = "start"

\* One call of summation_i_squared(n).
SumCall ==
    /\ s_pc = "start"
    /\ s_ret' = summation_i_squared(s_n)
    /\ s_pc' = "returned"
    /\ UNCHANGED s_n
    /\ UNCHANGED <<affVars, nstVars, nnVars, l2Vars, polyVars>>

NextSum == SumCall

SpecSum == InitSum /\ [][NextSum]_vars

----------------------------------------------------------------------------
\* l2_reg_gradient_descent (1-l2_reg_gradient_descent.py, lines 6-26).
\* weights is the dictionary the caller passed: weights.W[i] and weights.b[i]
\* are its entries 'W' + str(i) and 'b' + str(i); cache[i] is 'A' + str(i).
\* A row of m numbers is a function on 1..m.  alpha is a multiple of m, so
\* that alpha * x / m is an integer, as it is an exact float in the source.
MaxL == 2

MVals == {1, 2}
LVals == 1..MaxL
WVals == {-1, 2}
BVals == {1}
AVals == {0, 2}
YVals == {0, 1}
LambthaVals == {0, 1}

\* np.sum of a row of k numbers.
RowTotal(u, k) == SumTo([s \in 0..(k - 1) |-> u[s + 1]], k)

\* np.matmul(dZ, A.T) for two rows of k numbers.
MatMulT(u, v, k) == RowTotal([s \in 1..k |-> u[s] * v[s]], k)

\* weights_copy = weights: the same dictionary under a second name, so that a
\* read through weights_copy sees the entries already updated.
LookupAliased(wc, w, kind, k) == w[kind][k]

\* weights_copy[kind + str(k)], weights_copy being the copy of line 9.
Lookup(wc, w, kind, k) == wc[kind][k]

InitL2 ==
    /\ IdleAff /\ IdleNST /\ IdleNN /\ IdleSum /\ IdlePoly
    /\ L \in LVals
    /\ l_m \in MVals
    /\ alpha \in {2 * l_m}
    /\ lambtha \in LambthaVals
    /\ Y \in [1..l_m -> YVals]
    /\ cache \in [0..L -> [1..l_m -> AVals]]
    /\ weights \in [W : [1..L -> WVals], b : [1..L -> BVals]]
    /\ weights_copy = [W |-> << >>, b |-> << >>]
    /\ l_i = 0 /\ dZi = << >>
    /\ l_pc = "start"
    /\ weights0 = weights /\ l_order = << >>

\* Line 9: weights_copy = weights.copy(), and the head of range(L, 0, -1).
L2Start ==
    /\ l_pc = "start"
    /\ weights_copy' = weights
    /\ l_i' = L
    /\ l_pc' = "loop"
    /\ UNCHANGED <<Y, weights, cache, alpha, lambtha, L, l_m, dZi, weights0,
                   l_order>>
    /\ UNCHANGED <<affVars, nstVars, nnVars, sumVars, polyVars>>

\* Lines 10-26: the body of the loop for layer l_i.
L2Layer ==
    /\ l_pc = "loop"
    /\ l_i >= 1
    /\ LET dZ == IF l_i # L
                 THEN [s \in 1..l_m |->
                          Lookup(weights_copy, weights, "W", l_i + 1) * dZi[s]
                              * (1 - cache[l_i][s] * cache[l_i][s])]
                 ELSE [s \in 1..l_m |-> cache[l_i][s] - Y[s]]
           alpha_dWi == (alpha * MatMulT(dZ, cache[l_i - 1], l_m)) \div l_m
           alpha_dbi == (alpha * RowTotal(dZ, l_m)) \div l_m
           l2 == 1 - (alpha * lambtha) \div l_m
       IN  /\ dZi' = dZ
           /\ weights' =
                 [W |-> [weights.W EXCEPT ![l_i] =
                            l2 * Lookup(weights_copy, weights, "W", l_i)
                                - alpha_dWi],
                  b |-> [weights.b EXCEPT ![l_i] =
                            Lookup(weights_copy, weights, "b", l_i)
                                - alpha_dbi]]
    /\ l_order' = Append(l_order, l_i)
    /\ l_i' = l_i - 1
    /\ UNCHANGED <<Y, cache, alpha, lambtha, L, l_m, weights_copy, l_pc,
                   weights0>>
    /\ UNCHANGED <<affVars, nstVars, nnVars, sumVars, polyVars>>

\* The end of range(L, 0, -1): the function returns (None).
L2Return ==
    /\ l_pc = "loop"
    /\ l_i = 0
    /\ l_pc' = "done"
    /\ UNCHANGED <<Y, weights, cache, alpha, lambtha, L, l_m, weights_copy, l_i,
                   dZi, weights0, l_order>>
    /\ UNCHANGED <<affVars, nstVars, nnVars, sumVars, polyVars>>

NextL2 == L2Start \/ L2Layer \/ L2Return

SpecL2 == InitL2 /\ [][NextL2]_vars

----------------------------------------------------------------------------
\* poly_integral (17-integrate.py, lines 4-26) and poly_derivative
\* (10-matisse.py, lines 5-18).  A Python number is [type, num, sh]: its value
\* is num / 2^sh, with sh = 0 or num odd, so that two numbers are == exactly
\* when their num and sh agree.  A float has MantBits significant bits, and
\* / and * give the float nearest to the exact result, ties to even.  A
\* Python list is a sequence: index i of the source is position i + 1.  A
\* returned value is [isNone, list].
MaxLen == 3
MaxDeg == 7
MaxCoef == 30

IntV(k) == [type |-> "int", num |-> k, sh |-> 0]
Half == [type |-> "float", num |-> 1, sh |-> 1]
TwoFloat == [type |-> "float", num |-> 2, sh |-> 0]
TrueV == [type |-> "bool", num |-> 1, sh |-> 0]

NoneVal == [isNone |-> TRUE, list |-> << >>]
ListVal(l) == [isNone |-> FALSE, list |-> l]

RECURSIVE Norm(_, _)
\* num / 2^sh in lowest terms.
Norm(num, sh) ==
    IF sh > 0 /\ num % 2 = 0 THEN Norm(num \div 2, sh - 1)
    ELSE [num |-> num, sh |-> sh]

RECURSIVE ShiftUp(_, _)
\* The least t with x * 2^t >= b, for 0 < x.
ShiftUp(x, b) == IF x >= b THEN 0 ELSE 1 + ShiftUp(2 * x, b)

\* The float nearest to a / b, b > 0.
RoundQ(a, b) ==
    IF a = 0 THEN [type |-> "float", num |-> 0, sh |-> 0]
    ELSE
    LET x == Abs(a)
        sg == IF a < 0 THEN -1 ELSE 1
        e == IF x >= b THEN Log2Floor(x \div b) ELSE -ShiftUp(x, b)
    IN  IF e + 1 >= MantBits
        THEN LET u == Pow2(e + 1 - MantBits)
                 q == RoundEven(x \div (b * u), x % (b * u), b * u) * u
             IN  [type |-> "float", num |-> sg * q, sh |-> 0]
        ELSE LET sh == MantBits - 1 - e
                 q == RoundEven((x * Pow2(sh)) \div b, (x * Pow2(sh)) % b, b)
                 r == Norm(q, sh)
             IN  [type |-> "float", num |-> sg * r.num, sh |-> r.sh]

\* x / k for a number x and an int k > 0.
TrueDiv(x, k) == RoundQ(x.num, Pow2(x.sh) * k)

\* x * k for a number x and an int k >= 0: exact on ints, rounded on floats.
Mul(x, k) ==
    IF x.type = "float" THEN RoundQ(x.num * k, Pow2(x.sh))
    ELSE IntV(x.num * k)

\* int(x) if x % 1 == 0 else x.
IntIfWhole(x) == IF x.sh = 0 THEN IntV(x.num) ELSE x

\* type(x) is int or type(x) is float.
IsNumber(x) == x.type \in {"int", "float"}

\* Lines 15-23 of poly_integral left out: no coefficient is dropped.
StripNothing(l) == l

RECURSIVE StripZeros(_)
\* Lines 15-23 of poly_integral: the list without its trailing zeros.
StripZeros(l) ==
    IF l = << >> THEN << >>
    ELSE IF l[Len(l)].num = 0 THEN StripZeros(SubSeq(l, 1, Len(l) - 1))
    ELSE l

poly_integral(poly, C) ==
    IF poly.isNone \/ Len(poly.list) = 0 THEN NoneVal
    ELSE IF ~IsNumber(C) THEN NoneVal
    ELSE IF ~IsNumber(poly.list[1]) THEN NoneVal
    ELSE LET aux == StripZeros(poly.list)
             quot == [j \in 1..Len(aux) |-> TrueDiv(aux[j], j)]
             all == <<C>> \o quot
         IN  ListVal([j \in 1..Len(all) |-> IntIfWhole(all[j])])

poly_derivative(poly) ==
    IF poly.isNone \/ Len(poly.list) = 0 THEN NoneVal
    ELSE IF ~IsNumber(poly.list[1]) THEN NoneVal
    ELSE LET prod == [j \in 1..Len(poly.list) |-> Mul(poly.list[j], j - 1)]
         IN  IF Len(poly.list) > 1
             THEN ListVal(SubSeq(prod, 2, Len(prod)))
             ELSE ListVal(<<IntV(0)>>)

\* The coefficients tried: small ints, a float, the largest int of
\* MantBits - 1 bits, and an int that no float of MantBits bits holds.
CoefVals ==
    {IntV(0), IntV(1), IntV(-3), Half,
     IntV(Pow2(MantBits - 1) - 1), IntV(Pow2(MantBits) + 1)}

CVals == {IntV(0), IntV(5), Half, TwoFloat, TrueV}

\* The lists tried: every list of up to MaxLen coefficients, a * x^(k-1) for
\* small a and k up to MaxDeg, and a list that starts with a bool.
PolyInputs ==
    (UNION {[1..k -> CoefVals] : k \in 0..MaxLen})
        \cup {[j \in 1..k |-> IF j = k THEN IntV(a) ELSE IntV(0)] :
                 k \in 1..MaxDeg, a \in 1..MaxCoef}
        \cup {<<TrueV, IntV(1)>>}

InitPoly ==
    /\ IdleAff /\ IdleNST /\ IdleNN /\ IdleSum /\ IdleL2
    /\ c_poly \in PolyInputs
    /\ c_C \in CVals
    /\ integration = NoneVal
    /\ derivative = NoneVal
    /\ c_pc = "start"

\* integration = poly_integral(poly, C).
Integrate ==
    /\ c_pc = "start"
    /\ integration' = poly_integral(ListVal(c_poly), c_C)
    /\ c_pc' = "integrated"
    /\ UNCHANGED <<c_poly, c_C, derivative>>
    /\ UNCHANGED <<affVars, nstVars, nnVars, sumVars, l2Vars>>

\* derivative = poly_derivative(integration).
Derive ==
    /\ c_pc = "integrated"
    /\ derivative' = poly_derivative(integration)
    /\ c_pc' = "derived"
    /\ UNCHANGED <<c_poly, c_C, integration>>
    /\ UNCHANGED <<affVars, nstVars, nnVars, sumVars, l2Vars>>

NextPoly == Integrate \/ Derive

SpecPoly == InitPoly /\ [][NextPoly]_vars

----------------------------------------------------------------------------
\* Measures used by the properties below.
RowSum(r) == SumTo(r, Len0(r))

Total(M, nn) == SumTo([a \in 0..(nn - 1) |-> RowSum(M[a])], nn)

\* A row of n - 1 probabilities, each rounded down by less than one unit,
\* sums to 1 up to that rounding.
SumsToOne(r, den) == RowSum(r) <= den /\ den - RowSum(r) < Len0(r)

BothSet == b_min # None /\ b_max # None

\* The while loop is entered again and its body changes nothing: betas[i],
\* b_min and b_max keep their values, so Hi, Pi and Hdiff are recomputed to the
\* same values and the loop runs forever.
Livelocked ==
    /\ pc = "loop"
    /\ LoopCond(Hdiff, tol)
    /\ LET u == BisectUpdate(Hdiff, betas[i], b_min, b_max)
       IN  u.beta = betas[i] /\ u.b_min = b_min /\ u.b_max = b_max

\* The entropy of row a under its final precision.
RowEntropy(a) == HP(Delete(D[a], a), betas[a]).Hi

----------------------------------------------------------------------------
\* C1: when P_affinities returns for n >= 1 points, the returned matrix is
\* symmetric: P[a][b] = P[b][a] for all a, b.
C1_Symmetric ==
    (pc = "done" /\ n >= 1) =>
        \A a, b \in 0..(n - 1) : P[a][b] = P[b][a]

\* A returned matrix whose conditional matrix was not symmetric.
C1_Witness ==
    /\ pc = "done" /\ n >= 2
    /\ \E a, b \in 0..(n - 1) : Pcond[a][b] # Pcond[b][a]

\* C2: when P_affinities returns, the entropy of every row under its final
\* betas[a] is within tol of the target entropy H.
C2_EntropyConverged ==
    (pc = "done" /\ n >= 1) =>
        \A a \in 0..(n - 1) : Abs(RowEntropy(a) - H) <= tol

\* A return after a bisection that moved some precision off its initial value.
C2_Witness ==
    /\ pc = "done" /\ n >= 2
    /\ \E a \in 0..(n - 1) : betas[a] # BS
    /\ \A a \in 0..(n - 1) : Abs(RowEntropy(a) - H) <= tol

\* C3: the bisection of every row eventually reaches a terminal state, also
\* when the target entropy is unreachable.  A search that always terminates
\* never reaches a state that one more loop iteration leaves unchanged while
\* the loop condition still holds; this says no such state is reachable (for
\* a positive tolerance).
C3_RowTerminates == (tol > 0) => ~Livelocked

\* C4: for a single point P_affinities terminates and returns [[0]], for every
\* positive perplexity and tolerance: the loop of the only row never reaches a
\* state it cannot leave, and what is returned is [[0]].
C4_SinglePoint ==
    (n = 1 /\ tol > 0) =>
        /\ ~Livelocked
        /\ pc = "done" => P = [a \in 0..0 |-> [b \in 0..0 |-> 0]]

\* C5: for zero points P_affinities returns the empty matrix at once: no row
\* is begun, no bisection step runs, and line 52 (the division by 2n) does
\* not run.
C5_EmptyInput ==
    (n = 0) =>
        /\ pc \in {"start", "done"}
        /\ pc = "done" => (P = << >> /\ Pden = PS /\ betas = << >>)
        /\ i = 0 /\ row = << >> /\ Pcond = << >>

C5_Witness == n = 0 /\ pc = "done" /\ P = << >>

\* C6: within the loop of a row, once b_min and b_max are both set,
\* b_min <= betas[i] <= b_max, and b_max - b_min does not grow from one
\* iteration to the next.
C6_Bracket ==
    /\ []((pc = "loop" /\ BothSet) =>
            (b_min <= betas[i] /\ betas[i] <= b_max))
    /\ [][(pc = "loop" /\ pc' = "loop" /\ BothSet) =>
            (b_max' - b_min' <= b_max - b_min)]_vars

\* A row that converged after its bracket was narrowed at least once.
C6_Witness ==
    /\ pc = "loop" /\ BothSet /\ ~LoopCond(Hdiff, tol)
    /\ b_min < betas[i] /\ betas[i] < b_max

\* C7: when P_affinities returns for n >= 1 points, every diagonal entry of
\* the returned matrix is 0.
C7_ZeroDiagonal ==
    (pc = "done" /\ n >= 1) => \A a \in 0..(n - 1) : P[a][a] = 0

\* A returned matrix with zero diagonal and a non-zero entry off it.
C7_Witness ==
    /\ pc = "done" /\ n >= 2
    /\ \A a \in 0..(n - 1) : P[a][a] = 0
    /\ \E a, b \in 0..(n - 1) : P[a][b] > 0

\* C8: InvalidInput is raised before any row is processed when tolerance (or
\* perplexity) is not positive: such a call never gets past its first
\* statement other than by raising.
C8_InvalidInputRejected ==
    (tol <= 0 \/ perplexity <= 0) => pc \in {"start", "invalid"}

\* C9 as claimed: before symmetrization every row of P sums to 1, for every
\* n >= 1.
C9_RowsSumToOne_AllN ==
    (pc = "sym") => \A a \in 0..(n - 1) : SumsToOne(P[a], Pden)

\* C9 amended: before symmetrization every row of P sums to 1 for n >= 2; for
\* n = 1 the only row is [0] and sums to 0.
C9_RowsSumToOne ==
    (pc = "sym") =>
        \A a \in 0..(n - 1) :
            IF n >= 2 THEN SumsToOne(P[a], Pden) /\ P[a][a] = 0
            ELSE RowSum(P[a]) = 0

\* All rows written for n >= 2, each summing to 1, some row not uniform.
C9_Witness ==
    /\ pc = "sym" /\ n >= 3
    /\ \A a \in 0..(n - 1) : SumsToOne(P[a], Pden)
    /\ \E a, b, c \in 0..(n - 1) : a # b /\ a # c /\ P[a][b] # P[a][c]

\* C10: if every row of the conditional matrix sums to 1, the entries of the
\* returned matrix (P.T + P) / (2n) sum to 1.
C10_TotalMass ==
    (/\ pc = "done" /\ n >= 1
     /\ \A a \in 0..(n - 1) : RowSum(Pcond[a]) = PS)
        => Total(P, n) = Pden

\* A returned matrix of total mass 1 whose rows each summed to 1.
C10_Witness ==
    /\ pc = "done" /\ n >= 2
    /\ \A a \in 0..(n - 1) : RowSum(Pcond[a]) = PS
    /\ Total(P, n) = Pden

\* C11: when P_affinities returns for n >= 1 points, every entry of the
\* returned matrix is >= 0.
C11_NonNegative ==
    (pc = "done" /\ n >= 1) => \A a, b \in 0..(n - 1) : P[a][b] >= 0

\* A returned matrix with a pair of points whose affinity is positive both
\* ways, and no negative entry.
C11_Witness ==
    /\ pc = "done" /\ n >= 2
    /\ \E a, b \in 0..(n - 1) : a # b /\ P[a][b] > 0 /\ P[b][a] > 0
    /\ \A a, b \in 0..(n - 1) : P[a][b] >= 0

\* C12: in every state reached during calibration (after every doubling,
\* halving or midpoint update) every betas[a] is strictly positive, the
\* initial precisions being strictly positive (stated for a positive
\* tolerance).
C12_PositiveBetas ==
    (tol > 0 /\ pc \in {"row", "loop", "sym", "done"}) =>
        \A a \in 0..(n - 1) : betas[a] > 0

\* C13: the calibration of row i writes only betas[i] and row i of P: every
\* step of the row loop leaves D, H, and betas[k] and P[k] for k # i as they
\* were.
C13_RowLocal ==
    [][(pc \in {"row", "loop"}) =>
        /\ D' = D
        /\ H' = H
        /\ \A k \in 0..(n - 1) :
              (k # i) => (betas'[k] = betas[k] /\ P'[k] = P[k])]_vars

\* Row i is about to be calibrated after an earlier row was bisected and
\* written: the earlier row is kept, row i is still as P_init left it.
C13_Witness ==
    /\ pc = "loop" /\ i >= 1 /\ betas[i] # BS
    /\ betas[i - 1] # BS
    /\ \E b \in 0..(n - 1) : P[i - 1][b] > 0
    /\ \A b \in 0..(n - 1) : P[i][b] = 0

\* C18: one bisection step sets b_min to the old betas[i] when Hdiff > 0, and
\* doubles betas[i] if b_max is unset, else takes the midpoint with b_max;
\* when Hdiff <= 0 it sets b_max to the old betas[i], and halves betas[i] if
\* b_min is unset, else takes the midpoint with b_min; the other bound keeps
\* its value.
C18_StepUpdate ==
    [][(pc = "loop" /\ pc' = "loop") =>
        IF Hdiff > 0
        THEN /\ b_min' = betas[i]
             /\ b_max' = b_max
             /\ betas'[i] = IF b_max = None THEN 2 * betas[i]
                            ELSE (betas[i] + b_max) \div 2
        ELSE /\ b_max' = betas[i]
             /\ b_min' = b_min
             /\ betas'[i] = IF b_min = None THEN betas[i] \div 2
                            ELSE (betas[i] + b_min) \div 2]_vars

\* A step has just put betas[i] at the midpoint of a bracket with both ends
\* set, and the loop goes on.
C18_Witness ==
    /\ pc = "loop" /\ BothSet /\ LoopCond(Hdiff, tol)
    /\ b_min < betas[i] /\ betas[i] < b_max
    /\ betas[i] = Midpoint(b_min, b_max)

\* The row of P that the converged search of row a writes.
FinalRow(a) == Insert(HP(Delete(D[a], a), betas[a]).Pi, a, 0)

\* C19: symmetrization runs exactly once, after every row 0..n-1 has ended its
\* search and has been written into P; no row is changed by calibration after
\* symmetrization has read it.
C19_SymmetrizeLast ==
    /\ (pc \in {"row", "loop"}) => (Pden = PS /\ Pcond = << >> /\ i < n)
    /\ (pc = "sym") =>
          /\ i = n /\ Pden = PS /\ Pcond = << >>
          /\ \A a \in 0..(n - 1) :
                ~LoopCond(RowEntropy(a) - H, tol) /\ P[a] = FinalRow(a)
    /\ (pc = "done" /\ n >= 1) =>
          /\ i = n /\ Pden = SymDen(n, PS)
          /\ P = SymNum(Pcond, n)
          /\ \A a \in 0..(n - 1) : Pcond[a] = FinalRow(a)

\* Three or more rows, one of them bisected, all read by the one
\* symmetrization.
C19_Witness ==
    /\ pc = "done" /\ n >= 3 /\ i = n
    /\ \E a \in 0..(n - 1) : betas[a] # BS
    /\ P = SymNum(Pcond, n) /\ Pden = SymDen(n, PS)

\* The weight of neighbour b of point a under betas[a], and the sum of the
\* weights of all neighbours of a, taken from D directly.
Weight(a, b) == IF a = b THEN 0 ELSE ExpNeg(D[a][b] * betas[a])

WeightSum(a) == SumTo([b \in 0..(n - 1) |-> Weight(a, b)], n)

\* C20: the search of row i works on the n - 1 distances D[i][j], j # i, in
\* their order; the row written has length n, 0 at index i and the
\* probability of neighbour j at index j, not shifted.
C20_NeighbourIndex ==
    /\ (pc = "loop") =>
          /\ Len0(row) = n - 1 /\ Len0(Pi) = n - 1
          /\ \A j \in 0..(n - 2) : row[j] = D[i][IF j < i THEN j ELSE j + 1]
    /\ (pc = "sym") =>
          \A a \in 0..(n - 1) :
              /\ Len0(P[a]) = n
              /\ \A b \in 0..(n - 1) :
                    P[a][b] = IF a = b THEN 0
                              ELSE (Weight(a, b) * PS) \div WeightSum(a)

\* A middle row whose two neighbours, one on each side of the diagonal, got
\* different probabilities.
C20_Witness ==
    /\ pc = "sym" /\ n >= 3
    /\ P[1][1] = 0 /\ P[1][0] > 0 /\ P[1][2] > 0 /\ P[1][0] # P[1][2]
    /\ D[1][0] # D[1][2]

\* C15: generate_image returns the best generated image with the best cost:
\* the returned image is the image at which the returned cost was measured,
\* not a later one.
C15_BestImageReturned ==
    (g_pc = "returned") =>
        /\ g_ret_img = best_at
        /\ g_ret_cost = JTotal(g_ret_img)

\* C16: train, called with an integer iterations >= 1 and a positive float
\* alpha (and, where step is read, 1 <= step <= iterations), completes and
\* returns evaluate(X, Y) for every combination of verbose and graph,
\* verbose = False with graph = False included: it raises nothing, and what it
\* returns is the evaluation of the weights it ended with.
C16_TrainCompletes ==
    (/\ t_iterations >= 1 /\ t_alpha > 0
     /\ 1 <= t_step /\ t_step <= t_iterations) =>
        /\ t_pc # "raised"
        /\ (t_pc = "returned") => (t_ret = updates)

RECURSIVE SumSquares(_)
\* 1*1 + 2*2 + ... + k*k, in exact integers.
SumSquares(k) == IF k = 0 THEN 0 ELSE k * k + SumSquares(k - 1)

\* C17: summation_i_squared(n) returns the sum of i*i for i = 1..n for every
\* integer n >= 1, and None when n is not an integer or n <= 0.
C17_SumOfSquares ==
    (s_pc = "returned") =>
        s_ret = IF s_n.type = "int" /\ s_n.val >= 1
                THEN SumSquares(s_n.val) ELSE None

\* C21: train(X, Y, iterations, ...) applies exactly iterations
\* gradient-descent updates to the weights before it returns: what it returns
\* is the evaluation of the network after iterations updates.
C21_ExactUpdates ==
    (t_pc = "returned") => (updates = t_iterations /\ t_ret = t_iterations)

\* C22: within the bisection of one row a bound that is set is never unset
\* again, so the bound state only goes from none to one to both; betas[i] is
\* doubled only while b_max is unset and halved only while b_min is unset.
C22_BoundsForward ==
    [][(pc = "loop" /\ pc' = "loop") =>
        /\ (b_min # None) => (b_min' # None)
        /\ (b_max # None) => (b_max' # None)
        /\ (betas[i] > 0 /\ betas'[i] = 2 * betas[i]) => (b_max = None)
        /\ (betas[i] > 1 /\ betas'[i] = betas[i] \div 2) => (b_min = None)]_vars

\* Both bounds set after the lower one was set first: betas[i] was doubled
\* up to b_max and b_min is the value before the last doubling.
C22_Witness ==
    /\ pc = "loop" /\ BothSet
    /\ b_min >= BS /\ b_max = 2 * b_min

\* C23: the bisection of every row starts with no bound set: the b_min and
\* b_max of row i are not used for row i + 1, and betas[i + 1] still has its
\* initial value when row i + 1 starts; the rows not yet begun keep theirs.
C23_FreshRow ==
    /\ [][(pc = "row" /\ pc' = "loop") =>
            /\ b_min' = None /\ b_max' = None
            /\ i' = i /\ betas'[i] = P_init(n, perplexity).betas[i]]_vars
    /\ []((pc \in {"row", "loop"}) =>
            \A k \in (i + 1)..(n - 1) :
                betas[k] = P_init(n, perplexity).betas[k])

\* A later row has just been begun with no bounds, after the row before it
\* was bisected (so that its bounds were set when it ended).
C23_Witness ==
    /\ pc = "loop" /\ i >= 1
    /\ b_min = None /\ b_max = None
    /\ betas[i] = BS /\ betas[i - 1] # BS

RECURSIVE DZOld(_)
\* dZ of layer k as the weights before the call give it.
DZOld(k) ==
    IF k = L
    THEN [s \in 1..l_m |-> cache[k][s] - Y[s]]
    ELSE [s \in 1..l_m |->
             weights0.W[k + 1] * DZOld(k + 1)[s]
                 * (1 - cache[k][s] * cache[k][s])]

\* L, L - 1, ..., k.
RECURSIVE Downto(_, _)
Downto(hi, lo) == IF hi < lo THEN << >> ELSE <<hi>> \o Downto(hi - 1, lo)

\* C24: l2_reg_gradient_descent goes through the layers from L down to 1 and
\* computes dZ_i, i < L, from the W_{i+1} of before the call; after the call
\* every W_i is (1 - alpha*lambtha/m) * W_i_old - alpha*dW_i and every b_i is
\* b_i_old - alpha*db_i, in the dictionary that was passed.
C24_L2Update ==
    /\ (l_pc = "loop") =>
          /\ l_order = Downto(L, l_i + 1)
          /\ (l_i < L) => (dZi = DZOld(l_i + 1))
    /\ (l_pc = "done") =>
          /\ l_order = Downto(L, 1)
          /\ \A k \in 1..L :
                /\ weights.W[k] =
                      (1 - (alpha * lambtha) \div l_m) * weights0.W[k]
                          - (alpha * MatMulT(DZOld(k), cache[k - 1], l_m)) \div l_m
                /\ weights.b[k] =
                      weights0.b[k] - (alpha * RowTotal(DZOld(k), l_m)) \div l_m

\* Two or more layers and two examples: the upper layer's W was changed by
\* the call, and the lower layer's dZ, which is read through it, is not zero.
C24_Witness ==
    /\ l_pc = "done" /\ L >= 2 /\ l_m >= 2
    /\ weights.W[2] # weights0.W[2]
    /\ \E s \in 1..l_m : DZOld(1)[s] # 0
    /\ weights.W[1] # weights0.W[1]

\* Python's == on two numbers, and on two lists of numbers.
NumEq(x, y) == x.num = y.num /\ x.sh = y.sh

ListEq(k, l) == Len(k) = Len(l) /\ \A j \in 1..Len(k) : NumEq(k[j], l[j])

\* The position of the last non-zero entry of l, 0 when there is none.
LastNonZero(l) ==
    IF \A j \in 1..Len(l) : l[j].num = 0 THEN 0
    ELSE CHOOSE j \in 1..Len(l) :
             l[j].num # 0 /\ \A k \in (j + 1)..Len(l) : l[k].num = 0

\* poly with its trailing zeros removed, [0] when nothing is left.
Stripped(l) ==
    IF LastNonZero(l) = 0 THEN <<IntV(0)>> ELSE SubSeq(l, 1, LastNonZero(l))

\* c_poly is a non-empty list of numbers and c_C a number.
NumbersGiven ==
    /\ Len(c_poly) >= 1
    /\ \A j \in 1..Len(c_poly) : IsNumber(c_poly[j])
    /\ IsNumber(c_C)

\* k is 1 or 2^a + 2^b.
SpecialForm(k) ==
    \/ k = 1
    \/ \E a, b \in 0..Log2Floor(k) : k = Pow2(a) + Pow2(b)

\* Every non-zero coefficient is an int of fewer bits than a float's
\* mantissa and is divided by a number of the special form.
ExactCoefs ==
    \A j \in 1..Len(c_poly) :
        \/ c_poly[j].num = 0
        \/ /\ c_poly[j].type = "int"
           /\ Abs(c_poly[j].num) < Pow2(MantBits - 1)
           /\ SpecialForm(j)

====
